---- MODULE Spec2Model ----
(***************************************************************************)
(* A model of shared_lib (src/shared_lib/src/lib.rs): the platform-aware   *)
(* library path descriptor LibPath, the loaded library SharedLib and the   *)
(* typed function handle SharedLibFn.                                      *)
(*                                                                         *)
(* Strings (String, OsString, PathBuf) are sequences of one-character      *)
(* strings.  BadUnit stands for an encoding unit of an OsString that is    *)
(* not valid Unicode (a PathBuf may hold one, a String may not), and       *)
(* Replacement for U+FFFD, which to_string_lossy puts in its place.        *)
(***************************************************************************)
EXTENDS Integers, Sequences, FiniteSets

VARIABLES platform, lp, res, last_filename, libs, fns, trace

vars == <<platform, lp, res, last_filename, libs, fns, trace>>

----------------------------------------------------------------------------
\* Bounds of the model.

\* longest directory string of a path descriptor
MaxDirLen == 2
\* longest logical library name of a path descriptor
MaxNameLen == 2
\* number of SharedLib values a run may create
MaxLibs == 2
\* number of SharedLibFn values that may be live at once
MaxFns == 2
\* largest argument value passed to a foreign function
MaxArg == 2

\* arities SharedLibFn::run is implemented for: 0 through 5
MaxArity == 5

----------------------------------------------------------------------------
\* Characters and strings.

BadUnit == "%"
Replacement == "?"

Letters == {"a"}
NameChars == Letters \cup {"\\", ":"}
DirChars == Letters \cup {"/", "\\", ":", BadUnit}

StringsUpTo(chars, n) == UNION {[1..k -> chars] : k \in 0..n}

Platforms == {"windows", "macos", "linux"}

\* std::path::is_sep_byte: both slashes separate on Windows, "/" elsewhere
IsSep(os, c) == IF os = "windows" THEN c \in {"/", "\\"} ELSE c = "/"

\* std::path::MAIN_SEPARATOR
MainSep(os) == IF os = "windows" THEN "\\" ELSE "/"

\* std::env::consts::DLL_PREFIX, as libloading::library_filename uses it
DllPrefix(os) == IF os = "windows" THEN <<>> ELSE <<"l", "i", "b">>

\* std::env::consts::DLL_SUFFIX
DllSuffix(os) ==
    CASE os = "windows" -> <<".", "d", "l", "l">>
      [] os = "macos" -> <<".", "d", "y", "l", "i", "b">>
      [] OTHER -> <<".", "s", "o">>

\* libloading::library_filename(name): DLL_PREFIX + name + DLL_SUFFIX
library_filename(os, name) == DllPrefix(os) \o name \o DllSuffix(os)

\* index of the first separator of s, or Len(s) + 1
FirstSep(os, s) ==
    IF \E i \in 1..Len(s) : IsSep(os, s[i])
    THEN CHOOSE i \in 1..Len(s) :
            IsSep(os, s[i]) /\ \A j \in 1..(i - 1) : ~IsSep(os, s[j])
    ELSE Len(s) + 1

\* a Windows disk prefix: a drive letter and a colon
IsDisk(os, p) ==
    os = "windows" /\ Len(p) >= 2 /\ p[1] \in Letters /\ p[2] = ":"

\* a Windows prefix that starts with two separators (\\server\share)
IsUNC(os, p) ==
    os = "windows" /\ Len(p) >= 2 /\ IsSep(os, p[1]) /\ IsSep(os, p[2])

\* Path::prefix().is_some(): only Windows paths have a prefix
HasPrefix(os, p) == IsDisk(os, p) \/ IsUNC(os, p)

\* Prefix::len: 2 for a disk; 2 + server + (1 + share, when there is a share)
PrefixLen(os, p) ==
    IF IsUNC(os, p)
    THEN LET rest == SubSeq(p, 3, Len(p))
             i == FirstSep(os, rest)
             server == SubSeq(rest, 1, i - 1)
             after == SubSeq(rest, i + 1, Len(rest))
             share == SubSeq(after, 1, FirstSep(os, after) - 1)
         IN 2 + Len(server) + (IF Len(share) > 0 THEN 1 + Len(share) ELSE 0)
    ELSE IF IsDisk(os, p) THEN 2 ELSE 0

\* Path::has_root of a path without a prefix: it starts with a separator
HasRoot(os, p) == Len(p) > 0 /\ IsSep(os, p[1])

\* PathBuf::join(self, path), that is PathBuf::push on a clone of self
Join(os, self, path) ==
    LET need_sep ==
            /\ Len(self) > 0
            /\ ~IsSep(os, self[Len(self)])
            /\ ~(IsDisk(os, self) /\ Len(self) = 2)
    IN IF HasPrefix(os, path) \/ (os # "windows" /\ HasRoot(os, path))
       THEN path
       ELSE IF HasRoot(os, path)
       THEN SubSeq(self, 1, PrefixLen(os, self)) \o path
       ELSE IF need_sep
       THEN self \o <<MainSep(os)>> \o path
       ELSE self \o path

\* OsStr::to_str: Some only for valid Unicode
IsUnicode(s) == \A i \in 1..Len(s) : s[i] # BadUnit

\* OsStr::to_string_lossy: invalid units become U+FFFD
to_string_lossy(s) ==
    [i \in 1..Len(s) |-> IF s[i] = BadUnit THEN Replacement ELSE s[i]]

----------------------------------------------------------------------------
\* Results and errors.

Ok(v) == [tag |-> "Ok", val |-> v]
Err(e) == [tag |-> "Err", err |-> e]
Panic == [tag |-> "Panic"]

PathEmpty == [kind |-> "PathEmpty"]
PathConversion(path, target) ==
    [kind |-> "PathConversion", path |-> path, target |-> target]
LoadFailure(path, msg) == [kind |-> "LoadFailure", path |-> path, msg |-> msg]
SymbolNotFound(symbol_name, lib_name, msg) ==
    [kind |-> "SymbolNotFound", symbol_name |-> symbol_name,
     lib_name |-> lib_name, msg |-> msg]

IsOk(r) == r.tag = "Ok"
IsErr(r, kind) == r.tag = "Err" /\ r.err.kind = kind

----------------------------------------------------------------------------
\* LibPath.

LibPath(dir_path, lib_name) == [dir_path |-> dir_path, lib_name |-> lib_name]

\* LibPath::new_no_path
new_no_path(lib_name) == LibPath(<<>>, lib_name)

\* filename without the platform's prefix and suffix
filename_Undecorated(os, self) ==
    IF self.lib_name = <<>> THEN Err(PathEmpty) ELSE Ok(self.lib_name)

\* LibPath::filename
filename(os, self) ==
    IF self.lib_name = <<>>
    THEN Err(PathEmpty)
    ELSE Ok(library_filename(os, self.lib_name))

\* path that decorates and joins the name without going through filename
path_Unchecked(os, self) ==
    Ok(Join(os, self.dir_path, library_filename(os, self.lib_name)))

\* path that appends the file name to the directory as a string
path_Appended(os, self) ==
    LET f == filename(os, self)
    IN IF IsOk(f) THEN Ok(self.dir_path \o f.val) ELSE f

\* LibPath::path
path(os, self) ==
    LET f == filename(os, self)
    IN IF IsOk(f) THEN Ok(Join(os, self.dir_path, f.val)) ELSE f

\* PathBuf into OsString: From<PathBuf> for OsString hands over the inner
\* OsString, so the TryInto of the blanket impl cannot fail
PathBufTryIntoOsString(p) == Ok(p)

\* impl TryInto<OsString> for LibPath
try_into(os, self) ==
    LET p == path(os, self)
    IN IF ~IsOk(p) THEN p
       ELSE LET c == PathBufTryIntoOsString(p.val)
            IN IF IsOk(c) THEN c
               ELSE Err(PathConversion(p.val, "OsString"))

\* impl ToString for LibPath: both unwraps panic
to_string(os, self) ==
    LET binding == path(os, self)
    IN IF ~IsOk(binding) THEN Panic
       ELSE IF ~IsUnicode(binding.val) THEN Panic
       ELSE Ok(binding.val)

----------------------------------------------------------------------------
\* The operating system's loader and the libraries on disk.

Calculator == <<"c", "a", "l", "c", "u", "l", "a", "t", "o", "r">>
NonExistent == <<"n", "o", "n", "_", "e", "x", "i", "s", "t", "e", "n", "t">>
TestDir == <<"t", "e", "s", "t", "_", "d", "i", "r">>
BadDir == <<"d", BadUnit>>

LifeDirs == {<<>>, TestDir, BadDir}
LifeNames == {<<>>, Calculator, NonExistent}
LifeLibPaths == {LibPath(d, n) : d \in LifeDirs, n \in LifeNames}

\* The calculator library is on disk, under its platform file name, in each
\* directory of the model; no other library is.
Installed(os) == {Join(os, d, library_filename(os, Calculator)) : d \in LifeDirs}

LoaderMsg == "cannot open shared object file"
SymbolMsg == "undefined symbol"

\* libloading::Library::new: the loader maps the file or reports why not
Library_new(os, os_str) ==
    IF os_str \in Installed(os) THEN Ok([file |-> os_str]) ELSE Err(LoaderMsg)

\* The functions the calculator library exports, with their arities.
Exports == [zero |-> 0, neg |-> 1, add |-> 2, sub |-> 2,
            poly3 |-> 3, poly4 |-> 4, poly5 |-> 5]
FnNames == DOMAIN Exports \cup {"non_existent"}

RECURSIVE Weighted(_, _)
Weighted(args, n) == IF n = 0 THEN 0 ELSE n * args[n] + Weighted(args, n - 1)

\* What each exported function computes.
Foreign(sym, args) ==
    CASE sym = "zero" -> 0
      [] sym = "neg" -> 0 - args[1]
      [] sym = "add" -> args[1] + args[2]
      [] sym = "sub" -> args[1] - args[2]
      [] OTHER -> Weighted(args, Len(args))

\* libloading::Library::get: the symbol's address, when the library exports it
Library_get(lib, fn_name) ==
    IF fn_name \in DOMAIN Exports THEN Ok(fn_name) ELSE Err(SymbolMsg)

ArgVals == 1..MaxArg
ArgSeqs(n) == [1..n -> ArgVals]

----------------------------------------------------------------------------
\* SharedLib and SharedLibFn.

NoLib == [st |-> "none"]
NoFn == [st |-> "none"]

LoaderCall(os_str) == [call |-> "Library::new", arg |-> os_str]

\* new that reports the logical name, not the resolved path, in LoadFailure
SharedLib_new_ReportsName(os, lib_path) ==
    LET os_str == try_into(os, lib_path)
    IN IF ~IsOk(os_str)
       THEN [out |-> os_str, lib |-> NoLib, trace |-> <<>>]
       ELSE LET loaded == Library_new(os, os_str.val)
            IN IF IsOk(loaded)
               THEN [out |-> Ok("SharedLib"),
                     lib |-> [st |-> "loaded", lib |-> loaded.val,
                              lib_path |-> lib_path],
                     trace |-> <<LoaderCall(os_str.val)>>]
               ELSE [out |-> Err(LoadFailure(lib_path.lib_name, loaded.err)),
                     lib |-> NoLib,
                     trace |-> <<LoaderCall(os_str.val)>>]

\* new that hands the joined path to the loader before it checks the name
SharedLib_new_LoadsFirst(os, lib_path) ==
    LET raw == Join(os, lib_path.dir_path,
                    library_filename(os, lib_path.lib_name))
        loaded == Library_new(os, raw)
        os_str == try_into(os, lib_path)
    IN IF ~IsOk(os_str)
       THEN [out |-> os_str, lib |-> NoLib, trace |-> <<LoaderCall(raw)>>]
       ELSE IF IsOk(loaded)
       THEN [out |-> Ok("SharedLib"),
             lib |-> [st |-> "loaded", lib |-> loaded.val,
                      lib_path |-> lib_path],
             trace |-> <<LoaderCall(raw)>>]
       ELSE [out |-> Err(LoadFailure(to_string_lossy(os_str.val), loaded.err)),
             lib |-> NoLib,
             trace |-> <<LoaderCall(raw)>>]

\* new that keeps only the directory of the descriptor in the SharedLib
SharedLib_new_LosesName(os, lib_path) ==
    LET os_str == try_into(os, lib_path)
    IN IF ~IsOk(os_str)
       THEN [out |-> os_str, lib |-> NoLib, trace |-> <<>>]
       ELSE LET loaded == Library_new(os, os_str.val)
            IN IF IsOk(loaded)
               THEN [out |-> Ok("SharedLib"),
                     lib |-> [st |-> "loaded", lib |-> loaded.val,
                              lib_path |-> LibPath(lib_path.dir_path, <<>>)],
                     trace |-> <<LoaderCall(os_str.val)>>]
               ELSE [out |-> Err(LoadFailure(to_string_lossy(os_str.val),
                                             loaded.err)),
                     lib |-> NoLib,
                     trace |-> <<LoaderCall(os_str.val)>>]

\* SharedLib::new: the result, the SharedLib built and the loader calls made
SharedLib_new(os, lib_path) ==
    LET os_str == try_into(os, lib_path)
    IN IF ~IsOk(os_str)
       THEN [out |-> os_str, lib |-> NoLib, trace |-> <<>>]
       ELSE LET loaded == Library_new(os, os_str.val)
                path_str == try_into(os, lib_path)
            IN IF IsOk(loaded)
               THEN [out |-> Ok("SharedLib"),
                     lib |-> [st |-> "loaded", lib |-> loaded.val,
                              lib_path |-> lib_path],
                     trace |-> <<LoaderCall(os_str.val)>>]
               ELSE IF ~IsOk(path_str)
               THEN [out |-> path_str, lib |-> NoLib,
                     trace |-> <<LoaderCall(os_str.val)>>]
               ELSE [out |-> Err(LoadFailure(to_string_lossy(path_str.val),
                                             loaded.err)),
                     lib |-> NoLib,
                     trace |-> <<LoaderCall(os_str.val)>>]

\* get_fn that names the library by its file name, without the directory
get_fn_ReportsFilename(os, self, fn_name, sig) ==
    LET symbol == Library_get(self.lib, fn_name)
        p == filename(os, self.lib_path)
    IN IF IsOk(symbol)
       THEN Ok([symbol |-> symbol.val, sig |-> sig])
       ELSE IF ~IsOk(p) THEN p
       ELSE Err(SymbolNotFound(fn_name, to_string_lossy(p.val), symbol.err))

\* SharedLib::get_fn::<T>, T a function type of sig arguments
get_fn(os, self, fn_name, sig) ==
    LET symbol == Library_get(self.lib, fn_name)
        p == path(os, self.lib_path)
    IN IF IsOk(symbol)
       THEN Ok([symbol |-> symbol.val, sig |-> sig])
       ELSE IF ~IsOk(p) THEN p
       ELSE Err(SymbolNotFound(fn_name, to_string_lossy(p.val), symbol.err))

\* What a call through a dangling or wrongly typed function pointer may do.
Undefined == {Ok(0), Ok(0 - 1), [tag |-> "Crash"]}

\* the foreign calls SharedLibFn::run makes
run_calls(symbol, args) == <<[call |-> symbol, args |-> args]>>

\* run that passes the arguments in the opposite order
run_Reversed(f, args, mapped) ==
    IF mapped /\ f.sig = Exports[f.symbol]
    THEN {Ok(Foreign(f.symbol,
                     [i \in 1..Len(args) |-> args[Len(args) + 1 - i]]))}
    ELSE Undefined

\* SharedLibFn::run: (self.symbol)(a1, ..., an); the outcomes it may have.
\* The call is defined when the library is mapped and T is the function's type.
run(f, args, mapped) ==
    IF mapped /\ f.sig = Exports[f.symbol]
    THEN {Ok(Foreign(f.symbol, args))}
    ELSE Undefined

\* a handle that holds the symbol without the library's lifetime
Borrowed_NoLifetime(fs, l) == FALSE

\* SharedLibFn<'a, Fn> holds Symbol<'a, Fn>, a borrow of the SharedLib that
\* get_fn(&self) took it from: while such a handle lives, the library is borrowed
Borrowed(fs, l) == \E h \in DOMAIN fs : fs[h].st = "live" /\ fs[h].lib = l

----------------------------------------------------------------------------
\* State.

None == [tag |-> "None"]

LibIds == 1..MaxLibs
FnIds == 1..MaxFns

Result(op, input, out) == [op |-> op, input |-> input, out |-> out]

PathLibPaths ==
    {LibPath(d, n) : d \in StringsUpTo(DirChars, MaxDirLen),
                     n \in StringsUpTo(NameChars, MaxNameLen)}

\* the most recent result of filename before the current operation
Remember == IF res # None /\ res.op = "filename" THEN res ELSE last_filename

\* A path descriptor built by LibPath::new or LibPath::new_no_path on some
\* platform; nothing is loaded.
InitPath ==
    /\ platform \in Platforms
    /\ lp \in PathLibPaths
    /\ res = None
    /\ last_filename = None
    /\ libs = [l \in LibIds |-> NoLib]
    /\ fns = [h \in FnIds |-> NoFn]
    /\ trace = <<>>

CallFilename ==
    /\ res' = Result("filename", lp, filename(platform, lp))
    /\ last_filename' = Remember
    /\ UNCHANGED <<platform, lp, libs, fns, trace>>

CallPath ==
    /\ res' = Result("path", lp, path(platform, lp))
    /\ last_filename' = Remember
    /\ UNCHANGED <<platform, lp, libs, fns, trace>>

CallTryInto ==
    /\ res' = Result("try_into", lp, try_into(platform, lp))
    /\ last_filename' = Remember
    /\ UNCHANGED <<platform, lp, libs, fns, trace>>

CallToString ==
    /\ res' = Result("to_string", lp, to_string(platform, lp))
    /\ last_filename' = Remember
    /\ UNCHANGED <<platform, lp, libs, fns, trace>>

NextPath == CallFilename \/ CallPath \/ CallTryInto \/ CallToString

SpecPath == InitPath /\ [][NextPath]_vars

----------------------------------------------------------------------------
\* Loading, looking up, calling and releasing.

Init ==
    /\ platform \in Platforms
    /\ lp = new_no_path(Calculator)
    /\ res = None
    /\ last_filename = None
    /\ libs = [l \in LibIds |-> NoLib]
    /\ fns = [h \in FnIds |-> NoFn]
    /\ trace = <<>>

\* SharedLib::new(lib_path), the library kept as l
New(l, lib_path) ==
    /\ libs[l].st = "none"
    /\ LET r == SharedLib_new(platform, lib_path)
       IN /\ res' = Result("new", [lib_path |-> lib_path, l |-> l], r.out)
          /\ trace' = r.trace
          /\ libs' = [libs EXCEPT ![l] = r.lib]
    /\ UNCHANGED <<platform, lp, last_filename, fns>>

\* libs[l].get_fn::<T>(fn_name), the handle kept as h
GetFn(l, h, fn_name, sig) ==
    /\ libs[l].st = "loaded"
    /\ fns[h].st = "none"
    /\ LET r == get_fn(platform, libs[l], fn_name, sig)
       IN /\ res' = Result("get_fn", [l |-> l, h |-> h, fn_name |-> fn_name], r)
          /\ fns' = IF IsOk(r)
                    THEN [fns EXCEPT ![h] = [st |-> "live", lib |-> l, f |-> r.val]]
                    ELSE fns
    /\ trace' = <<[call |-> "Library::get", arg |-> fn_name]>>
    /\ UNCHANGED <<platform, lp, last_filename, libs>>

\* fns[h].clone(): the copy borrows the same library
CloneFn(h, h2) ==
    /\ fns[h].st = "live"
    /\ fns[h2].st = "none"
    /\ fns' = [fns EXCEPT ![h2] = fns[h]]
    /\ res' = Result("clone", h, Ok("SharedLibFn"))
    /\ trace' = <<>>
    /\ UNCHANGED <<platform, lp, last_filename, libs>>

\* fns[h].run(args)
Run(h, args) ==
    /\ fns[h].st = "live"
    /\ Len(args) = fns[h].f.sig
    /\ LET mapped == libs[fns[h].lib].st = "loaded"
       IN /\ \E out \in run(fns[h].f, args, mapped) :
                res' = Result("run", [f |-> fns[h].f, args |-> args,
                                      mapped |-> mapped], out)
          /\ trace' = run_calls(fns[h].f.symbol, args)
    /\ UNCHANGED <<platform, lp, last_filename, libs, fns>>

\* the handle h goes out of scope
DropFn(h) ==
    /\ fns[h].st = "live"
    /\ fns' = [fns EXCEPT ![h] = NoFn]
    /\ res' = Result("drop_fn", h, Ok("dropped"))
    /\ trace' = <<>>
    /\ UNCHANGED <<platform, lp, last_filename, libs>>

\* the SharedLib l is dropped: Library's Drop asks the loader to unmap it.
\* The borrow checker accepts the drop only when no handle borrows l.
Release(l) ==
    /\ libs[l].st = "loaded"
    /\ ~Borrowed(fns, l)
    /\ libs' = [libs EXCEPT ![l] = [st |-> "released"]]
    /\ res' = Result("drop_lib", l, Ok("dropped"))
    /\ trace' = <<[call |-> "Library::close", arg |-> libs[l].lib.file]>>
    /\ UNCHANGED <<platform, lp, last_filename, fns>>

\* The life cycle, with the names, the signature fn(usize, usize) -> usize
\* and the arguments of the integration tests.
TestSig == 2
TestFnNames == {"add", "non_existent"}
TestArgs == <<1, 2>>

Next ==
    \/ \E l \in LibIds, p \in LifeLibPaths : New(l, p)
    \/ \E l \in LibIds, h \in FnIds, n \in TestFnNames : GetFn(l, h, n, TestSig)
    \/ \E h \in FnIds, h2 \in FnIds : CloneFn(h, h2)
    \/ \E h \in FnIds : Run(h, TestArgs)
    \/ \E h \in FnIds : DropFn(h)
    \/ \E l \in LibIds : Release(l)

Spec == Init /\ [][Next]_vars

\* One library and one handle, with every exported function, every
\* signature a caller may name and every argument list.
NextCall ==
    \/ New(1, new_no_path(Calculator))
    \/ \E n \in FnNames, sig \in 0..MaxArity : GetFn(1, 1, n, sig)
    \/ \E sig \in 0..MaxArity : \E args \in ArgSeqs(sig) : Run(1, args)
    \/ DropFn(1)
    \/ Release(1)

SpecCall == Init /\ [][NextCall]_vars

----------------------------------------------------------------------------
\* Claims.

\* the file name pattern of the platform table
Pattern(os, n) ==
    CASE os = "windows" -> n \o <<".", "d", "l", "l">>
      [] os = "macos" -> <<"l", "i", "b">> \o n \o <<".", "d", "y", "l", "i", "b">>
      [] os = "linux" -> <<"l", "i", "b">> \o n \o <<".", "s", "o">>

Called(op) == res # None /\ res.op = op

\* C1: for every non-empty logical name n, filename returns Ok with exactly
\* the platform's pattern (n.dll, libn.dylib, libn.so), and a later call of
\* filename on the same descriptor returns the same value.
C1_FilenamePattern ==
    (Called("filename") /\ res.input.lib_name # <<>>) =>
        /\ res.out = Ok(Pattern(platform, res.input.lib_name))
        /\ last_filename # None => last_filename.out = res.out

C1_Witness ==
    /\ Called("filename") /\ res.input.lib_name # <<>>
    /\ platform = "macos"
    /\ last_filename # None

\* C2: with an empty logical name, filename, path and the conversion to
\* OsString all return PathEmpty, whatever the directory, and do not panic.
C2_EmptyNameIsPathEmpty ==
    (res # None /\ res.op \in {"filename", "path", "try_into"}
        /\ res.input.lib_name = <<>>) =>
        res.out = Err(PathEmpty)

C2_Witness ==
    /\ Called("try_into")
    /\ res.input.lib_name = <<>> /\ res.input.dir_path # <<>>
    /\ res.out = Err(PathEmpty)

\* d and f put together with one separator between them
Separated(os, d, f) ==
    IF IsSep(os, d[Len(d)]) THEN d \o f ELSE d \o <<MainSep(os)>> \o f

NameIsRooted(os, n) == os = "windows" /\ (HasRoot(os, n) \/ IsDisk(os, n))

\* the directory is a drive and nothing more (Windows)
BareDrive(os, d) == IsDisk(os, d) /\ Len(d) = 2

ResolvedPath ==
    LET d == res.input.lib_path.dir_path
        f == Pattern(platform, res.input.lib_path.lib_name)
    IN IF d = <<>> THEN f ELSE Separated(platform, d, f)

LoaderRejected ==
    /\ Called("new")
    /\ Len(trace) = 1 /\ trace[1].call = "Library::new"
    /\ trace[1].arg \notin Installed(platform)

\* C4: when the loader rejects the load of a descriptor with a non-empty
\* name, new returns LoadFailure whose path is the resolved path of the
\* descriptor as a string and whose msg is the loader's non-empty
\* diagnostic, and no library comes of it.
C4_LoadFailure ==
    (LoaderRejected /\ res.input.lib_path.lib_name # <<>>) =>
        /\ IsErr(res.out, "LoadFailure")
        /\ res.out.err.path = to_string_lossy(ResolvedPath)
        /\ res.out.err.msg = LoaderMsg /\ res.out.err.msg # ""
        /\ libs[res.input.l].st = "none"

C4_Witness ==
    /\ LoaderRejected
    /\ res.input.lib_path = LibPath(BadDir, NonExistent)
    /\ IsErr(res.out, "LoadFailure")

\* C5: get_fn with a name the library does not export returns
\* SymbolNotFound with the requested name and, as lib_name, the path that
\* was handed to the loader when the library was loaded; no handle comes
\* of it.
C5_SymbolNotFound ==
    (Called("get_fn") /\ res.input.fn_name \notin DOMAIN Exports) =>
        /\ IsErr(res.out, "SymbolNotFound")
        /\ res.out.err.symbol_name = res.input.fn_name
        /\ res.out.err.lib_name = to_string_lossy(libs[res.input.l].lib.file)
        /\ fns[res.input.h].st = "none"

C5_Witness ==
    /\ Called("get_fn") /\ res.input.fn_name = "non_existent"
    /\ libs[res.input.l].lib_path.dir_path = BadDir
    /\ IsErr(res.out, "SymbolNotFound")

\* C6: no function handle is invoked after the library it came from has
\* been released: every live handle's library is still mapped, and every
\* run found it mapped.
C6_NoUseAfterRelease ==
    /\ \A h \in FnIds : fns[h].st = "live" => libs[fns[h].lib].st = "loaded"
    /\ Called("run") => res.input.mapped

C6_Witness ==
    /\ Called("run")
    /\ \E l \in LibIds : libs[l].st = "released"

\* C7: filename, path, the conversion to OsString, to_string, new and
\* get_fn report an expected failure as a SharedLibError value and never by
\* panicking.
C7_NoPanic ==
    (res # None /\ res.op \in {"filename", "path", "try_into", "to_string",
                               "new", "get_fn"}) =>
        res.out.tag \in {"Ok", "Err"}

\* C8: new on a descriptor with an empty name returns PathEmpty and the
\* loader is never invoked.
C8_PathEmptyBeforeLoader ==
    (Called("new") /\ res.input.lib_path.lib_name = <<>>) =>
        /\ res.out = Err(PathEmpty)
        /\ trace = <<>>
        /\ libs[res.input.l].st = "none"

C8_Witness ==
    /\ Called("new")
    /\ res.input.lib_path = LibPath(TestDir, <<>>)
    /\ res.out = Err(PathEmpty)

\* C9: for every arity 0 through 5, run calls the resolved function exactly
\* once with the arguments in the given order and returns its result; the
\* calculator loaded from the empty directory gives add(1, 2) = 3.
C9_RunForwards ==
    (Called("run") /\ res.input.f.sig = Exports[res.input.f.symbol]) =>
        /\ trace = <<[call |-> res.input.f.symbol, args |-> res.input.args]>>
        /\ res.out = Ok(Foreign(res.input.f.symbol, res.input.args))
        /\ (res.input.f.symbol = "add" /\ res.input.args = <<1, 2>>) =>
               res.out = Ok(3)

C9_Witness ==
    /\ Called("run")
    /\ libs[1].st = "loaded" /\ libs[1].lib_path = new_no_path(Calculator)
    /\ res.input.f = [symbol |-> "add", sig |-> 2]
    /\ res.input.args = <<1, 2>>
    /\ res.out = Ok(3)

\* C10: a SharedLib exists only for a descriptor with a non-empty name, the
\* descriptor it keeps still resolves to the path that was loaded, and
\* get_fn returns a handle or SymbolNotFound, never another error.
C10_GetFnErrors ==
    /\ \A l \in LibIds : libs[l].st = "loaded" =>
           /\ libs[l].lib_path.lib_name # <<>>
           /\ path(platform, libs[l].lib_path) = Ok(libs[l].lib.file)
    /\ Called("get_fn") =>
           IsOk(res.out) \/ IsErr(res.out, "SymbolNotFound")

C10_Witness ==
    /\ Called("get_fn")
    /\ libs[res.input.l].lib_path = LibPath(TestDir, Calculator)
    /\ IsErr(res.out, "SymbolNotFound")

====
